---- MODULE Spec2Model ----
(***************************************************************************)
(* Model of run_cbnftfloorprice.py: the batch pipeline that turns a table  *)
(* of NFT trades into one floor-price estimate per collection.             *)
(*                                                                         *)
(* Numbers.  Prices are whole ETH.  Log-prices are fixed point, in         *)
(* thousandths (Log(2) = 693).  Floor prices are fixed point, in           *)
(* thousandths of an ETH.  Quantile levels and hit-rates are exact         *)
(* fractions <<numerator, denominator>>.  The percentages of the           *)
(* configuration (0.05, 0.02, 0.1, 0.5, 0.95) are kept in hundredths.      *)
(*                                                                         *)
(* A DataFrame is a sequence of rows (records); a row keeps, besides the   *)
(* columns of the code, the field "row": the position of the trade in the  *)
(* csv file, which names the trade in the properties.                      *)
(***************************************************************************)
EXTENDS Integers, Sequences, FiniteSets, TLC

VARIABLES pc, csv, nft_trades_df, nft_trades_grouped_df, records

vars == <<pc, csv, nft_trades_df, nft_trades_grouped_df, records>>

(***************************************************************************)
(* Configuration (run_cbnftfloorprice.py, lines 8-14).  The program runs   *)
(* with LOOKBACK = 140 and BACKTEST = 800; the model scales both down so   *)
(* that a collection can hold more trades than the cap.                    *)
(***************************************************************************)
LOOKBACK == 2
BACKTEST == 2
PCT_TARGET == 5
PCT_TARGET_MIN == 2
PCT_TARGET_MAX == 10
SPEED == 50
TWAP_Buffer_PCT == 95

(***************************************************************************)
(* Bounds of the inputs.                                                   *)
(***************************************************************************)
MaxRows == 3
MaxTokenRows == 3
MaxPriceRows == 4
MaxCapRows == 8

\* The collections (chain_id, contract_address) of the inputs.
Collections == {<<1, 2>>, <<2, 1>>}

\* The missing value of a column (NaN) is the empty sequence; a present value v is <<v>>.
NaN == <<>>

(***************************************************************************)
(* Sequences and fractions.                                                *)
(***************************************************************************)
Range(s) == {s[i] : i \in DOMAIN s}

RECURSIVE Concat(_)
Concat(ss) == IF ss = <<>> THEN <<>> ELSE Head(ss) \o Concat(Tail(ss))

\* Lexicographic order on tuples of integers of the same length.
RECURSIVE LexLess(_, _)
LexLess(a, b) ==
    IF a = <<>> THEN FALSE
    ELSE IF Head(a) # Head(b) THEN Head(a) < Head(b)
    ELSE LexLess(Tail(a), Tail(b))

\* The values of the columns `cols` of a row, as a tuple.
KeyOf(r, cols) == [n \in DOMAIN cols |-> r[cols[n]]]

\* df.sort_values(cols): stable sort of the rows by the columns (insertion sort);
\* rows with equal keys keep their order.
SortValues(df, cols) ==
    LET RECURSIVE Insert(_, _)
        Insert(x, t) ==
            IF t = <<>> THEN <<x>>
            ELSE IF LexLess(KeyOf(x, cols), KeyOf(Head(t), cols)) THEN <<x>> \o t
            ELSE <<Head(t)>> \o Insert(x, Tail(t))
        RECURSIVE Sort(_)
        Sort(t) ==
            IF t = <<>> THEN <<>>
            ELSE Insert(t[Len(t)], Sort(SubSeq(t, 1, Len(t) - 1)))
    IN  Sort(df)

\* Sorted tuple of the elements of a set of tuples.
RECURSIVE SortedKeys(_)
SortedKeys(S) ==
    IF S = {} THEN <<>>
    ELSE LET m == CHOOSE x \in S : \A y \in S : ~LexLess(y, x)
         IN  <<m>> \o SortedKeys(S \ {m})

\* Ascending sort of a sequence of integers.
RECURSIVE InsertInt(_, _)
InsertInt(x, s) ==
    IF s = <<>> THEN <<x>>
    ELSE IF x < Head(s) THEN <<x>> \o s
    ELSE <<Head(s)>> \o InsertInt(x, Tail(s))

RECURSIVE SortInts(_)
SortInts(s) == IF s = <<>> THEN <<>> ELSE InsertInt(Head(s), SortInts(Tail(s)))

\* Fractions <<n, d>> with d > 0.
FracLe(a, b) == a[1] * b[2] <= b[1] * a[2]
FracEq(a, b) == a[1] * b[2] = b[1] * a[2]

\* A fraction in lowest terms.
RECURSIVE Gcd(_, _)
Gcd(a, b) == IF b = 0 THEN a ELSE Gcd(b, a % b)

Reduce(a) ==
    LET g == Gcd(IF a[1] < 0 THEN -a[1] ELSE a[1], a[2])
    IN  <<a[1] \div g, a[2] \div g>>

\* Floor of the quotient, also for a negative numerator.
FloorDiv(a, b) == IF a >= 0 THEN a \div b ELSE -((-a + b - 1) \div b)

(***************************************************************************)
(* np.log and np.exp in fixed point.                                       *)
(***************************************************************************)
\* 1000 * ln(p), rounded, for the prices 1..8 of the inputs.
LogTable == <<0, 693, 1099, 1386, 1609, 1792, 1946, 2079>>
Log(p) == LogTable[p]

\* 1000 * exp(x / 1000) by the power series, each term truncated, for x >= 0.
RECURSIVE ExpSeries(_, _, _)
ExpSeries(x, term, k) ==
    IF term = 0 THEN 0
    ELSE term + ExpSeries(x, (term * x) \div (1000 * k), k + 1)

Exp(x) == ExpSeries(x, 1000, 1)

(***************************************************************************)
(* Group-wise operations of pandas.                                        *)
(***************************************************************************)
\* The columns that name a collection and a token.
CollectionCols == <<"chain_id", "contract_address">>
TokenCols == <<"chain_id", "contract_address", "token_id">>

CollectionKey(r) == KeyOf(r, CollectionCols)
TokenKey(r) == KeyOf(r, TokenCols)

\* The positions of the frame whose row is in the group of the row at position i.
SameGroup(df, cols, i) == {j \in DOMAIN df : KeyOf(df[j], cols) = KeyOf(df[i], cols)}

\* groupby(cols).tail(1): the last row of every group, in the order of the frame.
GroupTail(df, cols) ==
    LET last(i) == \A j \in SameGroup(df, cols, i) : j <= i
        RECURSIVE Keep(_)
        Keep(i) == IF i > Len(df) THEN <<>>
                   ELSE (IF last(i) THEN <<df[i]>> ELSE <<>>) \o Keep(i + 1)
    IN  Keep(1)

\* groupby(cols).head(1): the first row of every group, in the order of the frame.
GroupHead(df, cols) ==
    LET first(i) == \A j \in SameGroup(df, cols, i) : j >= i
        RECURSIVE Keep(_)
        Keep(i) == IF i > Len(df) THEN <<>>
                   ELSE (IF first(i) THEN <<df[i]>> ELSE <<>>) \o Keep(i + 1)
    IN  Keep(1)

\* The rows of one group, in the order of the frame.
GroupRows(df, cols, k) == SelectSeq(df, LAMBDA r : KeyOf(r, cols) = k)

\* groupby(cols): the frames of the groups, in the order of their keys.
Groups(df, cols) ==
    LET keys == SortedKeys({KeyOf(df[i], cols) : i \in DOMAIN df})
    IN  [n \in DOMAIN keys |-> GroupRows(df, cols, keys[n])]

(***************************************************************************)
(* Preprocessing (lines 21-42).                                            *)
(***************************************************************************)
\* nft_trades_df[nft_trades_df["price_eth"] > 0]
PositivePrice(df) == SelectSeq(df, LAMBDA r : r.price_eth > 0)

\* nft_trades_df["log_price"] = np.log(nft_trades_df["price_eth"])
WithLogPrice(df) == [i \in DOMAIN df |-> df[i] @@ [log_price |-> Log(df[i].price_eth)]]

\* price_eth >= twap-bid * TWAP_Buffer_PCT; a comparison with NaN is False.
AboveTwapBuffer(r) ==
    /\ r.twap_bid # NaN
    /\ r.price_eth * 100 >= r.twap_bid[1] * TWAP_Buffer_PCT

\* The filter that keeps a trade without twap-bid (the test skipped).
TwapFilterKeepMissing(df) ==
    SelectSeq(df, LAMBDA r : r.twap_bid = NaN \/ AboveTwapBuffer(r))

TwapFilter(df) == SelectSeq(df, AboveTwapBuffer)

\* sort_values([chain_id, contract_address, token_id, block_number]), then
\* groupby([chain_id, contract_address, token_id]).tail(1)
TokenBlockCols == <<"chain_id", "contract_address", "token_id", "block_number">>

\* Dedup that keeps the first trade of a token instead (head(1)).
DedupTokensFirst(df) == GroupHead(SortValues(df, TokenBlockCols), TokenCols)

DedupTokens(df) == GroupTail(SortValues(df, TokenBlockCols), TokenCols)

\* sort_values([chain_id, contract_address, block_number])
CollectionBlockCols == <<"chain_id", "contract_address", "block_number">>

\* The sort by collection alone (block_number left out of the keys).
SortByCollection(df) == SortValues(df, CollectionCols)

SortByBlock(df) == SortValues(df, CollectionBlockCols)

\* groupby([chain_id, contract_address])["block_number"].rank(method="first",
\* ascending=False) of the row at position i: 1 for the highest block_number of the
\* collection; among equal block_numbers the row that comes first in the frame
\* gets the lower rank.
Rank(df, i) ==
    1 + Cardinality({j \in SameGroup(df, CollectionCols, i) :
                        \/ df[j].block_number > df[i].block_number
                        \/ df[j].block_number = df[i].block_number /\ j < i})

\* nft_trades_df[nft_trades_df["rank"] < BACKTEST * 2 + LOOKBACK * 2]
\* The cap with the comparison <=.
KeepsRankInclusive(rank) == rank <= BACKTEST * 2 + LOOKBACK * 2

KeepsRank(rank) == rank < BACKTEST * 2 + LOOKBACK * 2

CapFilter(df) ==
    LET RECURSIVE Keep(_)
        Keep(i) == IF i > Len(df) THEN <<>>
                   ELSE (IF KeepsRank(Rank(df, i)) THEN <<df[i]>> ELSE <<>>) \o Keep(i + 1)
    IN  Keep(1)

Sanitized(df) == TwapFilter(WithLogPrice(PositivePrice(df)))

Preprocessed(df) == CapFilter(SortByBlock(DedupTokens(Sanitized(df))))

(***************************************************************************)
(* The library cbnftfloorprice, which the script imports.                  *)
(***************************************************************************)
\* The trailing window of every row of one collection: the log-prices of the last
\* `lookback` rows up to and including the row, in the order of the frame.
create_lookback(x, lookback) ==
    [i \in DOMAIN x |->
        x[i] @@ [log_prices_lookback |->
                    [n \in 1..(i - (IF i > lookback THEN i - lookback ELSE 0)) |->
                        x[(IF i > lookback THEN i - lookback ELSE 0) + n].log_price],
                 lookback_rows |->
                    [n \in 1..(i - (IF i > lookback THEN i - lookback ELSE 0)) |->
                        x[(IF i > lookback THEN i - lookback ELSE 0) + n].row]]]

\* Interpolated order statistic at the fractional rank p * (n - 1) of the sorted
\* sequence, p = <<num, den>> in [0, 1]; InsufficientData on an empty sequence.
InsufficientData == <<"InsufficientDataError">>

compute_quantile(seq, p) ==
    IF seq = <<>> THEN InsufficientData
    ELSE LET sorted == SortInts(seq)
             n == Len(sorted)
             i == (p[1] * (n - 1)) \div p[2]
             f == (p[1] * (n - 1)) % p[2]
         IN  IF i + 1 >= n THEN sorted[n]
             ELSE sorted[i + 1] + FloorDiv(f * (sorted[i + 2] - sorted[i + 1]), p[2])

\* Interquartile fences: the values within 1.5 times the interquartile spread of
\* the quartiles; a window of at most two points is returned as it is.
remove_outliers(seq) ==
    IF Len(seq) <= 2 THEN seq
    ELSE LET q1 == compute_quantile(seq, <<1, 4>>)
             q3 == compute_quantile(seq, <<3, 4>>)
             iqr == q3 - q1
         IN  SelectSeq(seq, LAMBDA v : /\ 2 * v >= 2 * q1 - 3 * iqr
                                       /\ 2 * v <= 2 * q3 + 3 * iqr)

\* One proportional step: clamp(nominal + speed * (desired - observed), min, max),
\* all fractions.
compute_new_quantile(nominal, desired, observed, speed, min_bound, max_bound) ==
    LET diff == Reduce(<<desired[1] * observed[2] - observed[1] * desired[2],
                         desired[2] * observed[2]>>)
        step == Reduce(<<speed[1] * diff[1], speed[2] * diff[2]>>)
        raw  == Reduce(<<nominal[1] * step[2] + step[1] * nominal[2],
                         nominal[2] * step[2]>>)
    IN  IF FracLe(raw, min_bound) THEN min_bound
        ELSE IF FracLe(max_bound, raw) THEN max_bound
        ELSE raw

(***************************************************************************)
(* Lookback and backtest horizon (lines 44-58).                            *)
(***************************************************************************)
\* groupby([chain_id, contract_address]).apply(create_lookback, lookback=LOOKBACK)
CreateLookback(df) ==
    LET groups == Groups(df, CollectionCols)
    IN  Concat([n \in DOMAIN groups |-> create_lookback(groups[n], LOOKBACK)])

\* x.iloc[-BACKTEST:]
\* x.iloc[:BACKTEST]: the first rows instead of the last.
FirstRows(x) == SubSeq(x, 1, (IF Len(x) > BACKTEST THEN BACKTEST ELSE Len(x)))

LastRows(x) == SubSeq(x, (IF Len(x) > BACKTEST THEN Len(x) - BACKTEST + 1 ELSE 1), Len(x))

\* groupby([chain_id, contract_address]).apply(lambda x: x.iloc[-BACKTEST:])
RestrictToBacktest(df) ==
    LET groups == Groups(df, CollectionCols)
    IN  Concat([n \in DOMAIN groups |-> LastRows(groups[n])])

(***************************************************************************)
(* Estimation (lines 60-119).                                              *)
(***************************************************************************)
\* nft_trades_df["log_prices_lookback_no_outliers"] (lines 61-64)
RemoveOutliers(df) ==
    [i \in DOMAIN df |->
        df[i] @@ [log_prices_lookback_no_outliers |->
                     remove_outliers(df[i].log_prices_lookback)]]

\* Whether a quantile of some row of the frame raises (an empty sequence).
Raises(df) == \E i \in DOMAIN df : df[i].log_prices_lookback_no_outliers = <<>>

\* nft_trades_df["log_price_target_quantile"] (lines 67-72)
ComputeTargetQuantile(df) ==
    [i \in DOMAIN df |->
        df[i] @@ [log_price_target_quantile |->
                     compute_quantile(df[i].log_prices_lookback_no_outliers,
                                      <<PCT_TARGET, 100>>)]]

\* nft_trades_df["price_smaller"], nft_trades_df["one"] (lines 75-79)
ComputePriceSmaller(df) ==
    [i \in DOMAIN df |->
        df[i] @@ [price_smaller |-> (df[i].log_price <= df[i].log_price_target_quantile),
                  one |-> 1]]

\* groupby([chain_id, contract_address]).agg("sum") and quantile_obs (lines 80-87)
GroupKeys(df) == {CollectionKey(df[i]) : i \in DOMAIN df}

\* The sums without the groupby: every collection gets the sums of the frame.
GroupSumsOfFrame(df) ==
    [k \in GroupKeys(df) |->
        LET smaller == Cardinality({i \in DOMAIN df : df[i].price_smaller})
        IN  [price_smaller |-> smaller, one |-> Len(df), quantile_obs |-> <<smaller, Len(df)>>]]

GroupSums(df) ==
    [k \in GroupKeys(df) |->
        LET members == {i \in DOMAIN df : CollectionKey(df[i]) = k}
            smaller == Cardinality({i \in members : df[i].price_smaller})
            ones    == Cardinality(members)
        IN  [price_smaller |-> smaller, one |-> ones, quantile_obs |-> <<smaller, ones>>]]

\* nft_trades_grouped_df["quantile_adj"] (lines 90-100)
\* The controller with the desired and the observed quantile exchanged.
QuantileAdjExchanged(quantile_obs) ==
    compute_new_quantile(<<PCT_TARGET, 100>>, quantile_obs, <<PCT_TARGET, 100>>,
                         <<SPEED, 100>>, <<PCT_TARGET_MIN, 100>>, <<PCT_TARGET_MAX, 100>>)

QuantileAdj(quantile_obs) ==
    compute_new_quantile(<<PCT_TARGET, 100>>, <<PCT_TARGET, 100>>, quantile_obs,
                         <<SPEED, 100>>, <<PCT_TARGET_MIN, 100>>, <<PCT_TARGET_MAX, 100>>)

ComputeAdjustedQuantile(grouped) ==
    [k \in DOMAIN grouped |->
        grouped[k] @@ [quantile_adj |-> QuantileAdj(grouped[k].quantile_obs)]]

\* drop(["price_smaller", "one"]).merge(nft_trades_grouped_df, left_on=[chain_id,
\* contract_address], right_index=True, how="left") (lines 103-108): every row gets
\* the aggregates of its collection; the order of the rows is that of the left frame.
MergeKey(r) == CollectionKey(r)

Merge(df, grouped) ==
    [i \in DOMAIN df |->
        [f \in DOMAIN df[i] \ {"price_smaller", "one"} |-> df[i][f]]
            @@ grouped[MergeKey(df[i])]]

\* nft_trades_df["log_price_adj"] (lines 109-115)
ComputeLogPriceAdj(df) ==
    [i \in DOMAIN df |->
        df[i] @@ [log_price_adj |->
                     compute_quantile(df[i].log_prices_lookback_no_outliers,
                                      df[i].quantile_adj)]]

\* groupby([chain_id, contract_address]).tail(1) (line 118)
\* The results without the tail(1): every row of the frame.
ResultRowsAll(df) == df

\* The results with head(1): the first row of every collection.
ResultRowsHead(df) == GroupHead(df, CollectionCols)

ResultRows(df) == GroupTail(df, CollectionCols)

\* result_df["floor_price_est"] = np.exp(result_df["log_price_adj"]) (line 119)
WithFloorPrice(df) ==
    [i \in DOMAIN df |-> df[i] @@ [floor_price_est |-> Exp(df[i].log_price_adj)]]

(***************************************************************************)
(* The run: one step per stage of main.                                    *)
(***************************************************************************)
\* A row of the csv file.
CsvRow(i, c, t, b, p, w) ==
    [row |-> i, chain_id |-> c[1], contract_address |-> c[2], token_id |-> t,
     block_number |-> b, price_eth |-> p, twap_bid |-> w]

\* pd.read_csv("nft_trades.csv") (line 19)
ReadCsv(rows) ==
    /\ csv = rows
    /\ nft_trades_df = rows
    /\ nft_trades_grouped_df = <<>>
    /\ records = <<>>
    /\ pc = "preprocessing"

\* Files whose rows differ in collection, price and twap-bid (one token per row,
\* one block): prices that are not positive, a missing twap-bid, a price under
\* and over the buffer.
PriceTwaps == {<<0, <<1>>>>, <<1, NaN>>, <<1, <<2>>>>, <<2, <<2>>>>, <<3, <<1>>>>}

InitSanitize ==
    \E n \in 0..MaxRows :
        \E c \in [1..n -> Collections], pw \in [1..n -> PriceTwaps] :
            ReadCsv([i \in 1..n |-> CsvRow(i, c[i], i, 1, pw[i][1], pw[i][2])])

\* Files with several trades of a token, in several blocks, some of them not
\* passing the twap-bid test.
Tokens == {<<<<1, 2>>, 1>>, <<<<1, 2>>, 2>>, <<<<2, 1>>, 1>>}

InitTokens ==
    \E n \in 0..MaxTokenRows :
        \E t \in [1..n -> Tokens], b \in [1..n -> 1..2], w \in [1..n -> {<<1>>, <<3>>}] :
            ReadCsv([i \in 1..n |-> CsvRow(i, t[i][1], t[i][2], b[i], 2, w[i])])

\* Files of valid trades (one token per row) with several prices, the blocks
\* ascending or descending along the file.
InitPrices ==
    \E n \in 0..MaxPriceRows :
        \E c \in [1..n -> Collections], p \in [1..n -> 1..3], up \in BOOLEAN :
            ReadCsv([i \in 1..n |->
                        CsvRow(i, c[i], i, (IF up THEN i ELSE n + 1 - i), p[i], <<1>>)])

\* Files of valid trades (one token per row) long enough to exceed the cap: the
\* first `other` rows belong to one collection, the rest to the other one.
InitCap ==
    \E n \in 0..MaxCapRows :
        \E other \in 0..n, b \in [1..n -> 1..2] :
            ReadCsv([i \in 1..n |->
                        CsvRow(i, (IF i <= other THEN <<2, 1>> ELSE <<1, 2>>), i, b[i],
                               1 + (i % 2), <<1>>)])

Init == InitSanitize \/ InitTokens \/ InitPrices

\* logging.info("preprocessing") (lines 21-42)
Preprocess ==
    /\ pc = "preprocessing"
    /\ nft_trades_df' = Preprocessed(nft_trades_df)
    /\ pc' = "creating lookback"
    /\ UNCHANGED <<csv, nft_trades_grouped_df, records>>

\* logging.info("creating lookback") (lines 44-49)
Lookback ==
    /\ pc = "creating lookback"
    /\ nft_trades_df' = CreateLookback(nft_trades_df)
    /\ pc' = "restricting to backtest window"
    /\ UNCHANGED <<csv, nft_trades_grouped_df, records>>

\* logging.info("restricting to backtest window") (lines 51-58)
Restrict ==
    /\ pc = "restricting to backtest window"
    /\ nft_trades_df' = RestrictToBacktest(nft_trades_df)
    /\ pc' = "removing outliers"
    /\ UNCHANGED <<csv, nft_trades_grouped_df, records>>

\* logging.info("removing outliers") (lines 60-64).  With no row left the row-wise
\* apply returns a frame instead of a column, and the assignment of line 61 raises
\* or leaves the empty frame, depending on the version of pandas.
Outliers ==
    /\ pc = "removing outliers"
    /\ IF nft_trades_df = <<>>
       THEN pc' \in {"raised", "compute target quantile"} /\ UNCHANGED nft_trades_df
       ELSE /\ nft_trades_df' = RemoveOutliers(nft_trades_df)
            /\ pc' = "compute target quantile"
    /\ UNCHANGED <<csv, nft_trades_grouped_df, records>>

\* logging.info("compute target quantile") (lines 66-72); an exception of
\* compute_quantile leaves main: the run ends without results.
TargetQuantile ==
    /\ pc = "compute target quantile"
    /\ IF Raises(nft_trades_df)
       THEN pc' = "raised" /\ UNCHANGED nft_trades_df
       ELSE /\ nft_trades_df' = ComputeTargetQuantile(nft_trades_df)
            /\ pc' = "compute observed quantile"
    /\ UNCHANGED <<csv, nft_trades_grouped_df, records>>

\* logging.info("compute observed quantile") (lines 74-87)
ObservedQuantile ==
    /\ pc = "compute observed quantile"
    /\ nft_trades_df' = ComputePriceSmaller(nft_trades_df)
    /\ nft_trades_grouped_df' = GroupSums(nft_trades_df')
    /\ pc' = "compute adjusted quantile"
    /\ UNCHANGED <<csv, records>>

\* logging.info("compute adjusted quantile") (lines 89-100)
AdjustedQuantile ==
    /\ pc = "compute adjusted quantile"
    /\ nft_trades_grouped_df' = ComputeAdjustedQuantile(nft_trades_grouped_df)
    /\ pc' = "computing adjusted log price"
    /\ UNCHANGED <<csv, nft_trades_df, records>>

\* logging.info("computing adjusted log price") (lines 102-115)
AdjustedLogPrice ==
    /\ pc = "computing adjusted log price"
    /\ nft_trades_df' = ComputeLogPriceAdj(Merge(nft_trades_df, nft_trades_grouped_df))
    /\ pc' = "getting results"
    /\ UNCHANGED <<csv, nft_trades_grouped_df, records>>

\* logging.info("getting results") (lines 117-125)
GetResults ==
    /\ pc = "getting results"
    /\ records' = WithFloorPrice(ResultRows(nft_trades_df))
    /\ pc' = "done"
    /\ UNCHANGED <<csv, nft_trades_df, nft_trades_grouped_df>>

Next ==
    \/ Preprocess
    \/ Lookback
    \/ Restrict
    \/ Outliers
    \/ TargetQuantile
    \/ ObservedQuantile
    \/ AdjustedQuantile
    \/ AdjustedLogPrice
    \/ GetResults

Spec == Init /\ [][Next]_vars

SpecCap == InitCap /\ [][Next]_vars

(***************************************************************************)
(* Properties.                                                             *)
(***************************************************************************)
\* The stages after preprocessing.
AfterPreprocess == pc # "preprocessing"

\* A trade of the csv file passes sanitization.
Sanitary(r) ==
    /\ r.price_eth > 0
    /\ r.twap_bid # NaN
    /\ r.price_eth * 100 >= r.twap_bid[1] * TWAP_Buffer_PCT

\* The csv positions of the rows of a frame, and those of one collection, in order.
RowIds(df) == [i \in DOMAIN df |-> df[i].row]
RowIdsOf(df, c) == RowIds(GroupRows(df, CollectionCols, c))

\* The sanitized and deduplicated records, in the order in which the cap sees them.
Deduplicated == SortByBlock(DedupTokens(Sanitized(csv)))

IsSuffix(s, t) == Len(s) <= Len(t) /\ s = SubSeq(t, Len(t) - Len(s) + 1, Len(t))

----------------------------------------------------------------------------
\* C3: every record that survives sanitization has a positive price, a twap-bid
\* that is present, and a price of at least twap-bid * TWAP_Buffer_PCT; a trade
\* whose twap-bid is missing never survives.
C3_SanitizedRows ==
    AfterPreprocess =>
        /\ \A i \in DOMAIN nft_trades_df :
              LET r == csv[nft_trades_df[i].row]
              IN  /\ r.price_eth > 0
                  /\ r.twap_bid # NaN
                  /\ r.price_eth * 100 >= r.twap_bid[1] * TWAP_Buffer_PCT
        /\ \A j \in DOMAIN csv :
              csv[j].twap_bid = NaN => j \notin Range(RowIds(nft_trades_df))

\* A file with a priced trade without twap-bid, a trade under the buffer and a
\* trade that survives.
C3_Witness ==
    /\ pc = "creating lookback"
    /\ \E j \in DOMAIN csv : csv[j].twap_bid = NaN /\ csv[j].price_eth > 0
    /\ \E j \in DOMAIN csv : csv[j].twap_bid # NaN /\ csv[j].price_eth > 0 /\ ~Sanitary(csv[j])
    /\ nft_trades_df # <<>>

----------------------------------------------------------------------------
\* The csv rows of a TokenKey, and the highest block_number among a set of them.
CsvOfToken(k) == {j \in DOMAIN csv : TokenKey(csv[j]) = k}
MaxBlock(J) == CHOOSE b \in {csv[j].block_number : j \in J} :
                   \A j \in J : csv[j].block_number <= b

OneRowPerToken ==
    \A i, j \in DOMAIN nft_trades_df :
        TokenKey(nft_trades_df[i]) = TokenKey(nft_trades_df[j]) => i = j

\* C2 as stated: after the trade filter at most one record of a TokenKey remains,
\* and it has the highest block_number among all csv records of the TokenKey.
C2_MaxOfAllInputs ==
    pc = "creating lookback" =>
        /\ OneRowPerToken
        /\ \A i \in DOMAIN nft_trades_df :
              nft_trades_df[i].block_number = MaxBlock(CsvOfToken(TokenKey(nft_trades_df[i])))

\* C2, amended: after the trade filter at most one record of a TokenKey remains,
\* and it has the highest block_number among the csv records of the TokenKey that
\* pass sanitization (among those of that block_number, it is the last of the file).
C2_MaxOfSanitized ==
    pc = "creating lookback" =>
        /\ OneRowPerToken
        /\ \A i \in DOMAIN nft_trades_df :
              LET r == nft_trades_df[i]
                  J == {j \in CsvOfToken(TokenKey(r)) : Sanitary(csv[j])}
              IN  /\ r.row \in J
                  /\ r.block_number = csv[r.row].block_number
                  /\ r.block_number = MaxBlock(J)
                  /\ \A j \in J : csv[j].block_number = r.block_number => j <= r.row

\* A token with two sanitary trades in different blocks, the later one first in
\* the file, and a third trade of the token that sanitization drops.
C2_Witness ==
    /\ pc = "creating lookback"
    /\ \E i \in DOMAIN nft_trades_df :
          LET K == CsvOfToken(TokenKey(nft_trades_df[i]))
          IN  /\ \E j, k \in K : /\ j < k
                                 /\ Sanitary(csv[j]) /\ Sanitary(csv[k])
                                 /\ csv[j].block_number > csv[k].block_number
              /\ \E j \in K : ~Sanitary(csv[j])

----------------------------------------------------------------------------
\* The cap as the spec states it, and the number of records the code keeps.
CapStated == 2 * (BACKTEST + LOOKBACK)
CapKept == 2 * (BACKTEST + LOOKBACK) - 1

Min(a, b) == IF a <= b THEN a ELSE b

\* The positions of collection c in a frame.
PositionsOf(df, c) == {i \in DOMAIN df : CollectionKey(df[i]) = c}

\* C1 as stated: after the trade filter a collection retains 2*(BACKTEST+LOOKBACK)
\* of its sanitized and deduplicated records, or all of them when it has fewer.
C1_RetainsCap ==
    pc = "creating lookback" =>
        \A c \in Collections :
            Cardinality(PositionsOf(nft_trades_df, c))
                = Min(Cardinality(PositionsOf(Deduplicated, c)), CapStated)

\* C1, amended: after the trade filter a collection retains exactly the
\* 2*(BACKTEST+LOOKBACK)-1 most recent of its sanitized and deduplicated records
\* by block_number, or all of them when it has fewer; of two records of the same
\* block_number the one that comes first in the frame is retained first; the
\* retained records keep the order of the frame.
C1_RetainsMostRecent ==
    pc = "creating lookback" =>
        LET deduplicated == Deduplicated
        IN  \A c \in Collections :
                LET before == GroupRows(deduplicated, CollectionCols, c)
                    after  == GroupRows(nft_trades_df, CollectionCols, c)
                    ids    == Range(RowIds(after))
                    kept   == {i \in DOMAIN before : before[i].row \in ids}
                IN  /\ Len(after) = Min(Len(before), CapKept)
                    /\ Cardinality(kept) = Len(after)
                    /\ \A i \in kept : \A j \in DOMAIN before \ kept :
                          \/ before[i].block_number > before[j].block_number
                          \/ before[i].block_number = before[j].block_number /\ i < j
                    /\ \A i, j \in DOMAIN after :
                          i < j => \E m, n \in kept : /\ m < n
                                                      /\ before[m] = after[i]
                                                      /\ before[n] = after[j]

\* A collection with at least 2*(BACKTEST+LOOKBACK) sanitized and deduplicated
\* records, the oldest block_number shared by a retained and a dropped record.
C1_Witness ==
    /\ pc = "creating lookback"
    /\ \E c \in Collections :
          /\ Cardinality(PositionsOf(Deduplicated, c)) >= CapStated
          /\ \E i \in PositionsOf(nft_trades_df, c), j \in PositionsOf(Deduplicated, c) :
                /\ Deduplicated[j].row \notin Range(RowIds(nft_trades_df))
                /\ Deduplicated[j].block_number = nft_trades_df[i].block_number

----------------------------------------------------------------------------
\* The collections with a trade of the csv file, and those with a sanitary one.
CsvCollections == {CollectionKey(csv[j]) : j \in DOMAIN csv}
SurvivingCollections == {CollectionKey(csv[j]) : j \in {k \in DOMAIN csv : Sanitary(csv[k])}}

\* C4: the output holds exactly one floor-price record for every collection with a
\* trade that survives sanitization, and none for a collection without one.
C4_OneRecordPerCollection ==
    pc \in {"done", "raised"} =>
        /\ \A c \in SurvivingCollections :
              Cardinality({n \in DOMAIN records : CollectionKey(records[n]) = c}) = 1
        /\ \A n \in DOMAIN records :
              /\ CollectionKey(records[n]) \in SurvivingCollections
              /\ records[n].floor_price_est > 0

\* One collection loses all its trades to sanitization, another keeps two.
C4_Witness ==
    /\ pc = "done"
    /\ CsvCollections \ SurvivingCollections # {}
    /\ Len(records) = 1
    /\ Len(nft_trades_df) = 2

----------------------------------------------------------------------------
\* The hit-rate of collection c over its backtest horizon, <<hits, trades>>, from
\* the columns of the frame.
HitRate(c) ==
    LET P == PositionsOf(nft_trades_df, c)
    IN  <<Cardinality({i \in P : nft_trades_df[i].log_price
                                     <= nft_trades_df[i].log_price_target_quantile}),
          Cardinality(P)>>

\* PCT_TARGET + SPEED * (PCT_TARGET - h), in hundredths of hundredths, over h[2].
Unclamped(h) ==
    <<100 * PCT_TARGET * h[2] + SPEED * (PCT_TARGET * h[2] - 100 * h[1]), 10000 * h[2]>>

\* C6: the adjusted quantile of every collection is
\* clamp(PCT_TARGET + SPEED * (PCT_TARGET - observed hit-rate), PCT_TARGET_MIN,
\* PCT_TARGET_MAX), and so lies in [PCT_TARGET_MIN, PCT_TARGET_MAX].
C6_AdjustedQuantile ==
    pc \in {"computing adjusted log price", "getting results", "done"} =>
        /\ DOMAIN nft_trades_grouped_df = GroupKeys(nft_trades_df)
        /\ \A c \in DOMAIN nft_trades_grouped_df :
              LET adj == nft_trades_grouped_df[c].quantile_adj
                  raw == Unclamped(HitRate(c))
              IN  /\ adj[2] > 0
                  /\ PCT_TARGET_MIN * adj[2] <= 100 * adj[1]
                  /\ 100 * adj[1] <= PCT_TARGET_MAX * adj[2]
                  /\ IF 100 * raw[1] <= PCT_TARGET_MIN * raw[2]
                     THEN 100 * adj[1] = PCT_TARGET_MIN * adj[2]
                     ELSE IF 100 * raw[1] >= PCT_TARGET_MAX * raw[2]
                     THEN 100 * adj[1] = PCT_TARGET_MAX * adj[2]
                     ELSE adj[1] * raw[2] = raw[1] * adj[2]

\* One collection is clamped at PCT_TARGET_MIN, another lies inside the bounds.
C6_Witness ==
    /\ pc = "computing adjusted log price"
    /\ \E c, d \in DOMAIN nft_trades_grouped_df :
          LET a == nft_trades_grouped_df[c].quantile_adj
              b == nft_trades_grouped_df[d].quantile_adj
          IN  /\ 100 * a[1] = PCT_TARGET_MIN * a[2]
              /\ nft_trades_grouped_df[c].quantile_obs[1] > 0
              /\ 100 * b[1] > PCT_TARGET_MIN * b[2]
              /\ 100 * b[1] < PCT_TARGET_MAX * b[2]

----------------------------------------------------------------------------
\* The whole run on a file: the frame before the results, and the records.
FinalFrame(rows) ==
    LET horizon  == RemoveOutliers(RestrictToBacktest(CreateLookback(Preprocessed(rows))))
        observed == ComputePriceSmaller(ComputeTargetQuantile(horizon))
        grouped  == ComputeAdjustedQuantile(GroupSums(observed))
    IN  ComputeLogPriceAdj(Merge(observed, grouped))

Run(rows) == WithFloorPrice(ResultRows(FinalFrame(rows)))

\* The floor prices of collection c among records.
FloorPricesOf(recs, c) ==
    LET mine == GroupRows(recs, CollectionCols, c)
    IN  [n \in DOMAIN mine |-> mine[n].floor_price_est]

\* C7: the floor price of a collection is that of the run on the collection's own
\* trades alone: the trades of other collections, wherever they stand in the file,
\* do not change it.
C7_Independent ==
    pc = "done" =>
        \A c \in Collections :
            FloorPricesOf(records, c)
                = FloorPricesOf(Run(GroupRows(csv, CollectionCols, c)), c)

\* Two collections with records, with different adjusted quantiles and prices.
C7_Witness ==
    /\ pc = "done"
    /\ Len(records) = 2
    /\ ~FracEq(records[1].quantile_adj, records[2].quantile_adj)
    /\ records[1].floor_price_est # records[2].floor_price_est

----------------------------------------------------------------------------
\* The rows of a collection are in ascending order of block_number.
Ascending(df) ==
    \A i, j \in DOMAIN df :
        (i < j /\ CollectionKey(df[i]) = CollectionKey(df[j]))
            => df[i].block_number <= df[j].block_number

\* C8: the records handed to the lookback are in ascending order of block_number
\* within a collection, and the window built for a trade t holds only log-prices
\* of trades of t's collection with a block_number of at most t's, ends with t
\* itself, and holds at most LOOKBACK log-prices.
C8_CausalWindows ==
    /\ pc = "creating lookback" => Ascending(nft_trades_df)
    /\ pc \in {"restricting to backtest window", "removing outliers", "done"} =>
          \A i \in DOMAIN nft_trades_df :
              LET t == nft_trades_df[i]
                  w == t.lookback_rows
              IN  /\ Len(w) >= 1
                  /\ Len(w) <= LOOKBACK
                  /\ Len(t.log_prices_lookback) = Len(w)
                  /\ w[Len(w)] = t.row
                  /\ \A n \in DOMAIN w :
                        /\ CollectionKey(csv[w[n]]) = CollectionKey(t)
                        /\ csv[w[n]].block_number <= csv[t.row].block_number
                        /\ t.log_prices_lookback[n] = Log(csv[w[n]].price_eth)
                  /\ \A m, n \in DOMAIN w : m < n => w[m] # w[n]

\* A collection over the cap, with a full window that reaches back to an earlier
\* block although the trade of the earlier block comes later in the file.
C8_Witness ==
    /\ pc = "restricting to backtest window"
    /\ \E c \in Collections : Cardinality(PositionsOf(Deduplicated, c)) >= CapStated
    /\ \E i \in DOMAIN nft_trades_df :
          LET t == nft_trades_df[i]
          IN  /\ Len(t.lookback_rows) = LOOKBACK
              /\ csv[t.lookback_rows[1]].block_number < t.block_number
              /\ t.lookback_rows[1] > t.row

----------------------------------------------------------------------------
\* The window of the most recent of the retained records P of a collection: the
\* log-prices of the last LOOKBACK of them.
LatestWindow(P) ==
    LET from == IF Len(P) > LOOKBACK THEN Len(P) - LOOKBACK + 1 ELSE 1
    IN  [n \in 1..(Len(P) - from + 1) |-> Log(csv[P[from + n - 1].row].price_eth)]

\* C9: the floor price of a collection is exp of the quantile, at the collection's
\* adjusted target, of the outlier-filtered window of its most recent retained
\* trade; the rows of a collection keep their order through the backtest trim and
\* the merge.
C9_LatestWindow ==
    /\ pc \in {"removing outliers", "getting results"} =>
          LET retained == Preprocessed(csv)
          IN  \A c \in Collections :
                  /\ IsSuffix(RowIdsOf(nft_trades_df, c), RowIdsOf(retained, c))
                  /\ Len(RowIdsOf(nft_trades_df, c))
                        = Min(Len(RowIdsOf(retained, c)), BACKTEST)
    /\ pc = "done" =>
          LET retained == Preprocessed(csv)
          IN  \A n \in DOMAIN records :
                  LET rec == records[n]
                      c   == CollectionKey(rec)
                      P   == GroupRows(retained, CollectionCols, c)
                  IN  /\ rec.row = P[Len(P)].row
                      /\ \A i \in PositionsOf(nft_trades_df, c) :
                            nft_trades_df[i].block_number <= rec.block_number
                      /\ rec.floor_price_est
                            = Exp(compute_quantile(remove_outliers(LatestWindow(P)),
                                                   nft_trades_grouped_df[c].quantile_adj))

\* A collection whose two windows of the horizon give different adjusted prices.
C9_Witness ==
    /\ pc = "done"
    /\ \E i, j \in DOMAIN nft_trades_df :
          /\ i < j
          /\ CollectionKey(nft_trades_df[i]) = CollectionKey(nft_trades_df[j])
          /\ nft_trades_df[i].log_price_adj # nft_trades_df[j].log_price_adj
          /\ nft_trades_df[i].block_number < nft_trades_df[j].block_number

----------------------------------------------------------------------------
\* C10: a collection with at least BACKTEST+LOOKBACK-1 sanitized and deduplicated
\* records has, after cap, lookback and backtest trim, exactly BACKTEST windows of
\* exactly LOOKBACK log-prices each; a collection with fewer than BACKTEST retained
\* records keeps all its windows.
C10_FullHorizon ==
    pc \in {"removing outliers", "done"} =>
        LET deduplicated == Deduplicated
            retained == CapFilter(deduplicated)
        IN  \A c \in Collections :
                LET n == Cardinality(PositionsOf(deduplicated, c))
                    P == PositionsOf(nft_trades_df, c)
                IN  /\ n >= BACKTEST + LOOKBACK - 1 =>
                          /\ Cardinality(P) = BACKTEST
                          /\ \A i \in P :
                                Len(nft_trades_df[i].log_prices_lookback) = LOOKBACK
                    /\ Cardinality(PositionsOf(retained, c)) < BACKTEST =>
                          RowIdsOf(nft_trades_df, c) = RowIdsOf(retained, c)

\* One collection with more records than both horizons need, another with fewer
\* than BACKTEST records.
C10_Witness ==
    /\ pc = "removing outliers"
    /\ \E c, d \in Collections :
          /\ Cardinality(PositionsOf(Deduplicated, c)) > BACKTEST + LOOKBACK
          /\ Cardinality(PositionsOf(Deduplicated, d)) \in 1..(BACKTEST - 1)

----------------------------------------------------------------------------
\* No window of the horizon is empty after the outlier filter, so that no quantile
\* raises: a run ends without results only when no trade survives preprocessing.
QuantileNeverRaises == pc = "raised" => nft_trades_df = <<>>

====
